---- MODULE Spec2Model ----
(***************************************************************************)
(* Model of knokko/Memory-Structures: Array (src/array.rs), Table          *)
(* (src/table.rs) and Graphics2D::draw_line (src/graphics.rs).             *)
(*                                                                         *)
(* Storage is one allocation, the Vec of the owning Array; an Array handle *)
(* is the struct {size, pointer, _memory_owner}, its pointer being an      *)
(* offset into that allocation.  usize is an unsigned integer of UsizeBits *)
(* bits.  Every failure of the code is a panic; the model labels a panic   *)
(* by the place that raises it.                                            *)
(***************************************************************************)
EXTENDS Integers, Sequences, FiniteSets, TLC

VARIABLES mem, handles, table, last, pre, line, pc, idx, reg, adds

vars == <<mem, handles, table, last, pre, line, pc, idx, reg, adds>>

\* ------------------------------------------------------------------ bounds
\* width of usize in bits (64 on the usual targets)
UsizeBits == 4
\* largest length of the owning Array
MaxLen == 3
\* largest value of a cell: the MAX of the element type T
CellMax == 1
\* largest number of sharing copies of the owning Array alive at once
MaxViews == 1

\* largest width and height of a Table
MaxDim == 3
\* largest number of threads adding through sharing copies
MaxThreads == 2

UsizeMax == 2 ^ UsizeBits - 1
Values == 0 .. CellMax

\* Option::None of checked_add / checked_mul
None == -1

Min(a, b) == IF a < b THEN a ELSE b

\* ------------------------------------------------------- usize arithmetic
checked_add(a, b) == IF a + b > UsizeMax THEN None ELSE a + b

checked_mul(a, b) == IF a * b > UsizeMax THEN None ELSE a * b

Wrap(v) == v % (UsizeMax + 1)

Overflows(v) == v < 0 \/ v > UsizeMax

\* ------------------------------------------------------------ raw storage
\* An execution state threads through the statements of one call:
\*   mem     the cells of the allocation, offset -> value
\*   written the offsets stored to so far, inside the allocation or not
\*   status  "ok", or the panic / crash that ended the call
\*   issued  the cells <<x, y>> a Table was asked to add to, in order
\*   wrapped whether a usize operation of the call wrapped (release build)
Exec(m) ==
    [mem |-> m, written |-> {}, status |-> "ok", issued |-> <<>>,
     wrapped |-> FALSE]

Panic(s, what) == IF s.status = "ok" THEN [s EXCEPT !.status = what] ELSE s

\* What the code leaves to the build and the machine, env:
\*   ub    a store outside the allocation is undefined behaviour: "stray" is
\*         a store to whatever memory lies there, "crash" a fault that ends
\*         the process
\*   junk  the value a load outside the allocation yields (also undefined)
\*   build "debug" panics on an overflowing += of the element type,
\*         "release" wraps it
\*   tmax  the MAX of the element type T
Envs(tmax) ==
    [ub : {"stray", "crash"}, junk : {0, tmax}, build : {"debug", "release"},
     tmax : {tmax}]

\* A call that checks its indices first never leaves the allocation, so ub
\* and junk are not reached by it; Builds are the environments of a call
\* that adds, OneEnv the environment of a call that only stores or loads.
OneEnv(tmax) ==
    [ub |-> "crash", junk |-> 0, build |-> "debug", tmax |-> tmax]

Builds(tmax) ==
    {[OneEnv(tmax) EXCEPT !.build = b] : b \in {"debug", "release"}}

\* A +, - or * on usize whose exact result is v: the debug build panics
\* when v does not fit, the release build goes on with Wrap(v)
Arith(s, v, env) ==
    IF s.status # "ok" \/ ~Overflows(v) THEN s
    ELSE IF env.build = "debug" THEN Panic(s, "ArithmeticOverflow")
    ELSE [s EXCEPT !.wrapped = TRUE]

\* *self.pointer.add(index) = value
RawStore(s, off, v, env) ==
    IF s.status # "ok" THEN s
    ELSE IF off \in DOMAIN s.mem
         THEN [s EXCEPT !.mem[off] = v, !.written = @ \cup {off}]
    ELSE IF env.ub = "crash" THEN [s EXCEPT !.status = "crash"]
    ELSE [s EXCEPT !.written = @ \cup {off}]

\* *self.pointer.add(index)
RawLoad(s, off, env) == IF off \in DOMAIN s.mem THEN s.mem[off] ELSE env.junk

\* ------------------------------------------------------------------ Array
ArrayStruct(size, pointer, owner) ==
    [size |-> size, pointer |-> pointer, owner |-> owner]

\* Array::create_garbage: the panic of size = 0, else the owning handle
create_garbage(size) ==
    IF size = 0 THEN [status |-> "InvalidSize"]
    ELSE [status |-> "ok", array |-> ArrayStruct(size, 0, TRUE)]

\* a length that counts one cell too many
len_inclusive(a) == a.size + 1

len(a) == a.size

\* Array::check_bound: TRUE when it returns, FALSE when it panics
check_bound(a, index) == index < a.size

\* a store through the handle that lands one cell further
set_unchecked_shifted(s, a, index, value, env) ==
    RawStore(s, a.pointer + index + 1, value, env)

set_unchecked(s, a, index, value, env) ==
    RawStore(s, a.pointer + index, value, env)

set(s, a, index, value, env) ==
    IF ~check_bound(a, index) THEN Panic(s, "IndexOutOfBounds")
    ELSE set_unchecked(s, a, index, value, env)

get_unchecked(s, a, index, env) == RawLoad(s, a.pointer + index, env)

\* Array::get: the status and, when ok, the value returned
get(s, a, index, env) ==
    IF ~check_bound(a, index) THEN [status |-> "IndexOutOfBounds"]
    ELSE [status |-> "ok", value |-> get_unchecked(s, a, index, env)]

\* a sharing copy that starts one cell into the storage
sharing_copy_shifted(a) == ArrayStruct(a.size, a.pointer + 1, FALSE)

sharing_copy(a) == ArrayStruct(a.size, a.pointer + 0, FALSE)

\* a sub-array taken without the check of its last index
sharing_sub_array_unbounded(a, start_index, size) ==
    IF size = 0 THEN [status |-> "InvalidSize"]
    ELSE IF checked_add(start_index, size - 1) = None
         THEN [status |-> "ArithmeticOverflow"]
    ELSE [status |-> "ok",
          array |-> ArrayStruct(size, a.pointer + start_index, FALSE)]

sharing_sub_array(a, start_index, size) ==
    IF size = 0 THEN [status |-> "InvalidSize"]
    ELSE IF checked_add(start_index, size - 1) = None
         THEN [status |-> "ArithmeticOverflow"]
    ELSE IF ~check_bound(a, checked_add(start_index, size - 1))
         THEN [status |-> "IndexOutOfBounds"]
    ELSE [status |-> "ok",
          array |-> ArrayStruct(size, a.pointer + start_index, FALSE)]

\* for index in from..=to { *self.pointer.add(index) = value }
RECURSIVE StoreLoop(_, _, _, _, _, _)
StoreLoop(s, a, from, to, value, env) ==
    IF from > to \/ s.status # "ok" THEN s
    ELSE StoreLoop(RawStore(s, a.pointer + from, value, env),
                   a, from + 1, to, value, env)

\* set_some taking the end index to be start_index + amount
set_some_inclusive(s, a, start_index, amount, value, env) ==
    IF amount = 0 THEN s
    ELSE IF checked_add(start_index, amount - 1) = None
         THEN Panic(s, "ArithmeticOverflow")
    ELSE IF ~check_bound(a, checked_add(start_index, amount - 1))
         THEN Panic(s, "IndexOutOfBounds")
    ELSE StoreLoop(s, a, start_index, start_index + amount, value, env)

set_some(s, a, start_index, amount, value, env) ==
    IF amount = 0 THEN s
    ELSE IF checked_add(start_index, amount - 1) = None
         THEN Panic(s, "ArithmeticOverflow")
    ELSE IF ~check_bound(a, checked_add(start_index, amount - 1))
         THEN Panic(s, "IndexOutOfBounds")
    ELSE StoreLoop(s, a, start_index, checked_add(start_index, amount - 1),
                   value, env)

set_all(s, a, value, env) == StoreLoop(s, a, 0, a.size - 1, value, env)

\* Array::create_filled
create_filled(size, value) ==
    IF size = 0 THEN [status |-> "InvalidSize"]
    ELSE [status |-> "ok", array |-> ArrayStruct(size, 0, TRUE),
          mem |-> [i \in 0 .. size - 1 |-> value]]

\* *location += amount on the element type: the sum, or None where the
\* debug build panics on overflow
AddAssign(v, amount, env) ==
    IF v + amount <= env.tmax THEN v + amount
    ELSE IF env.build = "debug" THEN None
    ELSE (v + amount) % (env.tmax + 1)

\* *self.pointer.add(index) += amount
RawAdd(s, off, amount, env) ==
    IF s.status # "ok" THEN s
    ELSE IF AddAssign(RawLoad(s, off, env), amount, env) = None
         THEN Panic(s, "ElementOverflow")
    ELSE RawStore(s, off, AddAssign(RawLoad(s, off, env), amount, env), env)

add_unchecked(s, a, index, amount, env) ==
    IF ~check_bound(a, index) THEN Panic(s, "IndexOutOfBounds")
    ELSE RawAdd(s, a.pointer + index, amount, env)

add(s, a, index, amount, env) ==
    IF ~check_bound(a, index) THEN Panic(s, "IndexOutOfBounds")
    ELSE add_unchecked(s, a, index, amount, env)

\* for index in from..=to { *self.pointer.add(index) += amount_to_add }
RECURSIVE AddLoop(_, _, _, _, _, _)
AddLoop(s, a, from, to, amount, env) ==
    IF from > to \/ s.status # "ok" THEN s
    ELSE AddLoop(RawAdd(s, a.pointer + from, amount, env),
                 a, from + 1, to, amount, env)

add_unchecked_some(s, a, start_index, amount_of_elements, amount_to_add, env) ==
    IF amount_of_elements = 0 THEN s
    ELSE IF checked_add(start_index, amount_of_elements - 1) = None
         THEN Panic(s, "ArithmeticOverflow")
    ELSE AddLoop(s, a, start_index,
                 checked_add(start_index, amount_of_elements - 1),
                 amount_to_add, env)

\* add_some without its bound check, as add_unchecked_some is
add_some_unvalidated(s, a, start_index, amount_of_elements, amount_to_add, env) ==
    add_unchecked_some(s, a, start_index, amount_of_elements, amount_to_add, env)

add_some(s, a, start_index, amount_of_elements, amount_to_add, env) ==
    IF amount_of_elements = 0 THEN s
    ELSE IF checked_add(start_index, amount_of_elements - 1) = None
         THEN Panic(s, "ArithmeticOverflow")
    ELSE IF ~check_bound(a, checked_add(start_index, amount_of_elements - 1))
         THEN Panic(s, "IndexOutOfBounds")
    ELSE AddLoop(s, a, start_index,
                 checked_add(start_index, amount_of_elements - 1),
                 amount_to_add, env)

add_all(s, a, amount, env) == AddLoop(s, a, 0, a.size - 1, amount, env)

\* utility.rs, Saturating::saturating_add of an unsigned element type
Saturating_add(v, other, env) == Min(v + other, env.tmax)

\* *location = (*location).saturating_add(amount)
RawSaturatingAdd(s, off, amount, env) ==
    RawStore(s, off, Saturating_add(RawLoad(s, off, env), amount, env), env)

saturating_add(s, a, index, amount, env) ==
    IF ~check_bound(a, index) THEN Panic(s, "IndexOutOfBounds")
    ELSE RawSaturatingAdd(s, a.pointer + index, amount, env)

RECURSIVE SaturatingLoop(_, _, _, _, _, _)
SaturatingLoop(s, a, from, to, amount, env) ==
    IF from > to \/ s.status # "ok" THEN s
    ELSE SaturatingLoop(RawSaturatingAdd(s, a.pointer + from, amount, env),
                        a, from + 1, to, amount, env)

saturating_add_some(s, a, start_index, amount_of_elements, amount_to_add, env) ==
    IF amount_of_elements = 0 THEN s
    ELSE IF checked_add(start_index, amount_of_elements - 1) = None
         THEN Panic(s, "ArithmeticOverflow")
    ELSE IF ~check_bound(a, checked_add(start_index, amount_of_elements - 1))
         THEN Panic(s, "IndexOutOfBounds")
    ELSE SaturatingLoop(s, a, start_index,
                        checked_add(start_index, amount_of_elements - 1),
                        amount_to_add, env)

saturating_add_all(s, a, amount, env) ==
    SaturatingLoop(s, a, 0, a.size - 1, amount, env)

\* ------------------------------------------------------------------ Table
TableStruct(array, width, height, bound) ==
    [array |-> array, width |-> width, height |-> height, bound |-> bound]

\* Table::new without the check of the buffer against the bound
Table_new_unchecked(array, width, height) ==
    IF width = 0 \/ height = 0 THEN [status |-> "InvalidSize"]
    ELSE IF checked_mul(width, height) = None
         THEN [status |-> "ArithmeticOverflow"]
    ELSE [status |-> "ok",
          table |-> TableStruct(array, width, height,
                                checked_mul(width, height))]

\* Table::new.  The third failure is the panic of array.check_bound(bound - 1)
Table_new(array, width, height) ==
    IF width = 0 \/ height = 0 THEN [status |-> "InvalidSize"]
    ELSE IF checked_mul(width, height) = None
         THEN [status |-> "ArithmeticOverflow"]
    ELSE IF ~check_bound(array, checked_mul(width, height) - 1)
         THEN [status |-> "BufferTooSmall"]
    ELSE [status |-> "ok",
          table |-> TableStruct(array, width, height,
                                checked_mul(width, height))]

get_width(t) == t.width

get_height(t) == t.height

\* the index with the height as the stride
unchecked_index_for_height(t, x, y, env) ==
    IF x + y * t.height <= UsizeMax THEN x + y * t.height
    ELSE IF env.build = "debug" THEN None
    ELSE (x + y * t.height) % (UsizeMax + 1)

\* x + y * self.width on usize: None where the debug build panics on
\* overflow, the wrapped sum in the release build
unchecked_index_for(t, x, y, env) ==
    IF x + y * t.width <= UsizeMax THEN x + y * t.width
    ELSE IF env.build = "debug" THEN None
    ELSE (x + y * t.width) % (UsizeMax + 1)

\* Table::index_for: the status and, when ok, the index
index_for(t, x, y, env) ==
    IF x >= t.width \/ y >= t.height THEN [status |-> "IndexOutOfBounds"]
    ELSE IF unchecked_index_for(t, x, y, env) = None
         THEN [status |-> "ArithmeticOverflow"]
    ELSE [status |-> "ok", index |-> unchecked_index_for(t, x, y, env)]

Table_set(s, t, x, y, value, env) ==
    IF index_for(t, x, y, env).status # "ok"
    THEN Panic(s, index_for(t, x, y, env).status)
    ELSE set_unchecked(s, t.array, index_for(t, x, y, env).index, value, env)

\* Table::get: the status and, when ok, the value returned
Table_get(s, t, x, y, env) ==
    IF index_for(t, x, y, env).status # "ok"
    THEN [status |-> index_for(t, x, y, env).status]
    ELSE [status |-> "ok",
          value |-> get_unchecked(s, t.array, index_for(t, x, y, env).index,
                                  env)]

set_unchecked_row(s, t, y, value, env) ==
    IF unchecked_index_for(t, 0, y, env) = None
    THEN Panic(s, "ArithmeticOverflow")
    ELSE set_some(s, t.array, unchecked_index_for(t, 0, y, env), t.width,
                  value, env)

set_row(s, t, y, value, env) ==
    IF y >= t.height THEN Panic(s, "IndexOutOfBounds")
    ELSE set_unchecked_row(s, t, y, value, env)

\* for _ in 1..self.height { index += self.height; set_unchecked(index) },
\* left iterations left to run from index
RECURSIVE ColumnLoop(_, _, _, _, _, _)
ColumnLoop(s, t, index, left, value, env) ==
    IF left = 0 \/ s.status # "ok" THEN s
    ELSE IF index + t.height > UsizeMax /\ env.build = "debug"
         THEN Panic(s, "ArithmeticOverflow")
    ELSE ColumnLoop(set_unchecked(s, t.array,
                                  (index + t.height) % (UsizeMax + 1),
                                  value, env),
                    t, (index + t.height) % (UsizeMax + 1), left - 1,
                    value, env)

set_unchecked_column(s, t, x, value, env) ==
    ColumnLoop(set_unchecked(s, t.array, x, value, env), t, x, t.height - 1,
               value, env)

set_column(s, t, x, value, env) ==
    IF x >= t.width THEN Panic(s, "IndexOutOfBounds")
    ELSE set_unchecked_column(s, t, x, value, env)

\* set_all filling the whole buffer instead of the bound
Table_set_all_buffer(s, t, value, env) == set_all(s, t.array, value, env)

Table_set_all(s, t, value, env) == set_some(s, t.array, 0, t.bound, value, env)

\* ----------------------------------------------- Graphics2D for Table
Issue(s, cells) ==
    IF s.status # "ok" THEN s ELSE [s EXCEPT !.issued = @ \o cells]

\* Table::add_unchecked
Table_add_unchecked(s, t, x, y, amount, env) ==
    add_unchecked(Arith(Issue(s, <<(<<x, y>>)>>), x + y * t.width, env),
                  t.array, Wrap(x + y * t.width), amount, env)

\* the cells <<min_x, y>> .. <<max_x, y>>
RECURSIVE RowCells(_, _, _)
RowCells(min_x, max_x, y) ==
    IF min_x > max_x THEN <<>>
    ELSE <<(<<min_x, y>>)>> \o RowCells(min_x + 1, max_x, y)

\* a rectangle add that stops after the row min_y
add_unchecked_rect_first_row(s, t, min_x, min_y, max_x, max_y, amount, env) ==
    IF min_y > max_y \/ s.status # "ok" THEN s
    ELSE add_unchecked_some(
            Issue(s, RowCells(min_x, max_x, min_y)),
            t.array, Wrap(min_x + min_y * t.width),
            Wrap(Wrap(max_x - min_x) + 1), amount, env)

\* Table::add_unchecked_rect: for y in min_y..=max_y { add_unchecked_some }
RECURSIVE add_unchecked_rect(_, _, _, _, _, _, _, _)
add_unchecked_rect(s, t, min_x, min_y, max_x, max_y, amount, env) ==
    IF min_y > max_y \/ s.status # "ok" THEN s
    ELSE add_unchecked_rect(
            add_unchecked_some(
                Arith(Arith(Arith(Issue(s, RowCells(min_x, max_x, min_y)),
                                  min_x + min_y * t.width, env),
                            max_x - min_x, env),
                      Wrap(max_x - min_x) + 1, env),
                t.array, Wrap(min_x + min_y * t.width),
                Wrap(Wrap(max_x - min_x) + 1), amount, env),
            t, min_x, min_y + 1, max_x, max_y, amount, env)

\* ------------------------------------------------ Graphics2D::draw_line
\* The values draw_line computes before it steps (graphics.rs 38-75)
LineOf(width, height, x1, y1, x2, y2) ==
    LET min_x == IF x1 < x2 THEN x1 ELSE x2
        max_x == IF x1 < x2 THEN x2 ELSE x1
        min_y == IF y1 < y2 THEN y1 ELSE y2
        max_y == IF y1 < y2 THEN y2 ELSE y1
    IN  [min_x |-> min_x, max_x |-> max_x, min_y |-> min_y, max_y |-> max_y,
         dx |-> max_x - min_x, dy |-> max_y - min_y,
         negative_slope |-> ((x1 = min_x) # (y1 = min_y)),
         end_x |-> IF max_x >= width THEN Wrap(Wrap(width - 1) - min_x)
                   ELSE max_x - min_x,
         end_y |-> IF max_y >= height THEN Wrap(Wrap(height - 1) - min_y)
                   ELSE max_y - min_y,
         width |-> width, height |-> height]

\* a guard that never finds an overflow
check_overflow_never(L) == FALSE

\* the guard of graphics.rs 77-103
check_overflow(L) ==
    \/ checked_mul(L.end_x, L.dy) = None
    \/ checked_add(checked_mul(L.end_x, L.dy), L.min_y) = None
    \/ checked_mul(L.end_y, L.dx) = None
    \/ checked_add(checked_mul(L.end_y, L.dx), L.min_x) = None

\* for extra_x in extra_x..=end_x (graphics.rs 105-117)
RECURSIVE XPass(_, _, _, _, _, _)
XPass(s, t, L, extra_x, value, env) ==
    IF extra_x > L.end_x \/ s.status # "ok" THEN s
    ELSE LET s1 == Arith(s, extra_x * L.dy, env)
             extra_y == Wrap(extra_x * L.dy) \div L.dx
         IN XPass(
              IF L.negative_slope
              THEN IF extra_y <= L.max_y
                   THEN Table_add_unchecked(
                          Arith(Arith(s1, L.min_x + extra_x, env),
                                L.max_y - extra_y, env),
                          t, Wrap(L.min_x + extra_x), Wrap(L.max_y - extra_y),
                          value, env)
                   ELSE s1
              ELSE IF Wrap(extra_y + L.min_y) < L.height
                   THEN Table_add_unchecked(
                          Arith(Arith(s1, extra_y + L.min_y, env),
                                extra_x + L.min_x, env),
                          t, Wrap(extra_x + L.min_x), Wrap(extra_y + L.min_y),
                          value, env)
                   ELSE Arith(s1, extra_y + L.min_y, env),
              t, L, extra_x + 1, value, env)

\* a y pass that samples nothing
YPass_skipped(s, t, L, extra_y, value, env) == s

\* for extra_y in extra_y..=end_y (graphics.rs 119-131)
RECURSIVE YPass(_, _, _, _, _, _)
YPass(s, t, L, extra_y, value, env) ==
    IF extra_y > L.end_y \/ s.status # "ok" THEN s
    ELSE LET s1 == Arith(s, extra_y * L.dx, env)
             extra_x == Wrap(extra_y * L.dx) \div L.dy
         IN YPass(
              IF L.negative_slope
              THEN IF extra_x <= L.max_x
                   THEN Table_add_unchecked(
                          Arith(Arith(s1, L.max_x - extra_x, env),
                                extra_y + L.min_y, env),
                          t, Wrap(L.max_x - extra_x), Wrap(extra_y + L.min_y),
                          value, env)
                   ELSE s1
              ELSE IF Wrap(extra_x + L.min_x) < L.width
                   THEN Table_add_unchecked(
                          Arith(Arith(s1, extra_x + L.min_x, env),
                                extra_y + L.min_y, env),
                          t, Wrap(extra_x + L.min_x), Wrap(extra_y + L.min_y),
                          value, env)
                   ELSE Arith(s1, extra_x + L.min_x, env),
              t, L, extra_y + 1, value, env)

draw_line(s, t, x1, y1, x2, y2, value, env) ==
    LET width == get_width(t)
        height == get_height(t)
        L == LineOf(width, height, x1, y1, x2, y2)
    IN
    IF (x1 >= width /\ x2 >= width) \/ (y1 >= height /\ y2 >= height) THEN s
    ELSE IF x1 = x2
    THEN IF x1 < get_width(t)
         THEN IF y1 < y2
              THEN add_unchecked_rect(Arith(s, height - 1, env), t, x1, y1, x1,
                                      Min(y2, Wrap(height - 1)), value, env)
              ELSE add_unchecked_rect(Arith(s, height - 1, env), t, x1, y2, x1,
                                      Min(y1, Wrap(height - 1)), value, env)
         ELSE s
    ELSE IF y1 = y2
    THEN IF y1 < get_height(t)
         THEN IF x1 < x2
              THEN add_unchecked_rect(Arith(s, width - 1, env), t, x1, y1,
                                      Min(x2, Wrap(width - 1)), y1, value, env)
              ELSE add_unchecked_rect(Arith(s, width - 1, env), t, x2, y1,
                                      Min(x1, Wrap(width - 1)), y1, value, env)
         ELSE s
    ELSE LET s1 == Arith(Arith(Arith(Arith(s,
                      IF L.max_x >= width THEN width - 1 ELSE 0, env),
                      IF L.max_x >= width THEN Wrap(width - 1) - L.min_x ELSE 0, env),
                      IF L.max_y >= height THEN height - 1 ELSE 0, env),
                      IF L.max_y >= height THEN Wrap(height - 1) - L.min_y ELSE 0, env)
         IN IF check_overflow(L) THEN Panic(s1, "LineOverflow")
            ELSE YPass(XPass(s1, t, L, 0, value, env), t, L, 0, value, env)

\* =================================================== the Array state machine
\* Values of the variables a specification does not use
NoTable == TableStruct(ArrayStruct(0, 0, FALSE), 0, 0, 0)
NoLine == <<>>
NoThreads == <<>>

\* Inputs of the calls: every index of the largest Array, the first index
\* past it, and the largest usize (where start + count - 1 wraps)
IndexInputs == (0 .. MaxLen) \cup {UsizeMax}
CountInputs == (0 .. MaxLen + 1) \cup {UsizeMax}

\* The record of the call that ran last (history, read by no call): the
\* operation, the handle it went through, its arguments a, b, v and how it
\* ended; pre is the storage as the call found it.
Call(op, h, a, b, v, r) ==
    [op |-> op, h |-> h, a |-> a, b |-> b, v |-> v,
     status |-> r.status, written |-> r.written]

NoCall == Call("none", 0, 0, 0, 0, Exec(<<>>))

Returned(op, h, a, b, v, r) ==
    /\ mem' = r.mem
    /\ pre' = mem
    /\ last' = Call(op, h, a, b, v, r)

Handles == 1 .. Len(handles)

\* let array = Array::create_garbage(n): arbitrary contents
InitArray ==
    /\ \E n \in 1 .. MaxLen :
         /\ create_garbage(n).status = "ok"
         /\ mem \in [0 .. n - 1 -> Values]
         /\ handles = <<create_garbage(n).array>>
    /\ pre = mem
    /\ last = NoCall

Init ==
    /\ InitArray
    /\ table = NoTable
    /\ line = NoLine
    /\ pc = NoThreads /\ idx = NoThreads /\ reg = NoThreads /\ adds = NoThreads

\* The caller goes on to its next call: the record of the last one is
\* dropped.  No call reads the record, so no behaviour of the storage is lost.
Forget ==
    /\ last # NoCall
    /\ last' = NoCall
    /\ pre' = mem
    /\ UNCHANGED <<mem, handles, table, line, pc, idx, reg, adds>>

Set ==
    /\ last = NoCall
    /\ \E h \in Handles, index \in IndexInputs, value \in Values :
        /\ Returned("set", h, index, 0, value,
                    set(Exec(mem), handles[h], index, value, OneEnv(CellMax)))
        /\ UNCHANGED <<handles, table, line, pc, idx, reg, adds>>

SetSome ==
    /\ last = NoCall
    /\ \E h \in Handles, start \in IndexInputs, count \in CountInputs,
       value \in Values :
        /\ Returned("set_some", h, start, count, value,
                    set_some(Exec(mem), handles[h], start, count, value, OneEnv(CellMax)))
        /\ UNCHANGED <<handles, table, line, pc, idx, reg, adds>>

SetAll ==
    /\ last = NoCall
    /\ \E h \in Handles, value \in Values :
        /\ Returned("set_all", h, 0, 0, value,
                    set_all(Exec(mem), handles[h], value, OneEnv(CellMax)))
        /\ UNCHANGED <<handles, table, line, pc, idx, reg, adds>>

\* get: the value returned is kept in v of the call record
Get ==
    /\ last = NoCall
    /\ \E h \in Handles, index \in IndexInputs :
        LET r == get(Exec(mem), handles[h], index, OneEnv(CellMax)) IN
        /\ Returned("get", h, index, 0,
                    IF r.status = "ok" THEN r.value ELSE 0,
                    [Exec(mem) EXCEPT !.status = r.status])
        /\ UNCHANGED <<handles, table, line, pc, idx, reg, adds>>

Add ==
    /\ last = NoCall
    /\ \E h \in Handles, index \in IndexInputs, amount \in Values, env \in Builds(CellMax) :
        /\ Returned("add", h, index, 0, amount,
                    add(Exec(mem), handles[h], index, amount, env))
        /\ UNCHANGED <<handles, table, line, pc, idx, reg, adds>>

AddSome ==
    /\ last = NoCall
    /\ \E h \in Handles, start \in IndexInputs, count \in CountInputs,
       amount \in Values, env \in Builds(CellMax) :
        /\ Returned("add_some", h, start, count, amount,
                    add_some(Exec(mem), handles[h], start, count, amount, env))
        /\ UNCHANGED <<handles, table, line, pc, idx, reg, adds>>

AddAll ==
    /\ last = NoCall
    /\ \E h \in Handles, amount \in Values, env \in Builds(CellMax) :
        /\ Returned("add_all", h, 0, 0, amount,
                    add_all(Exec(mem), handles[h], amount, env))
        /\ UNCHANGED <<handles, table, line, pc, idx, reg, adds>>

SaturatingAdd ==
    /\ last = NoCall
    /\ \E h \in Handles, index \in IndexInputs, amount \in Values :
        /\ Returned("saturating_add", h, index, 0, amount,
                    saturating_add(Exec(mem), handles[h], index, amount, OneEnv(CellMax)))
        /\ UNCHANGED <<handles, table, line, pc, idx, reg, adds>>

SaturatingAddSome ==
    /\ last = NoCall
    /\ \E h \in Handles, start \in IndexInputs, count \in CountInputs,
       amount \in Values :
        /\ Returned("saturating_add_some", h, start, count, amount,
                    saturating_add_some(Exec(mem), handles[h], start, count,
                                        amount, OneEnv(CellMax)))
        /\ UNCHANGED <<handles, table, line, pc, idx, reg, adds>>

SaturatingAddAll ==
    /\ last = NoCall
    /\ \E h \in Handles, amount \in Values :
        /\ Returned("saturating_add_all", h, 0, 0, amount,
                    saturating_add_all(Exec(mem), handles[h], amount, OneEnv(CellMax)))
        /\ UNCHANGED <<handles, table, line, pc, idx, reg, adds>>

SharingCopy ==
    /\ last = NoCall
    /\ \E h \in Handles :
        /\ Len(handles) < 1 + MaxViews
        /\ handles' = Append(handles, sharing_copy(handles[h]))
        /\ Returned("sharing_copy", h, 0, 0, 0, Exec(mem))
        /\ UNCHANGED <<table, line, pc, idx, reg, adds>>

Next ==
    \/ Set \/ SetSome \/ SetAll \/ Get
    \/ Add \/ AddSome \/ AddAll
    \/ SaturatingAdd \/ SaturatingAddSome \/ SaturatingAddAll
    \/ SharingCopy
    \/ Forget

Spec == Init /\ [][Next]_vars

\* ------------------------------------------- the Array machine with views
\* let view = handles[h].sharing_sub_array(start, size): the record of the
\* call keeps the source h, start in a and size in b; a view that was made
\* is the last handle
SharingSubArray ==
    /\ last = NoCall
    /\ Len(handles) < 1 + MaxViews
    /\ \E h \in Handles, start \in IndexInputs, size \in CountInputs :
        LET r == sharing_sub_array(handles[h], start, size) IN
        /\ handles' = IF r.status = "ok" THEN Append(handles, r.array)
                       ELSE handles
        /\ Returned("sharing_sub_array", h, start, size, 0,
                    [Exec(mem) EXCEPT !.status = r.status])
        /\ UNCHANGED <<table, line, pc, idx, reg, adds>>

NextSubArray == Next \/ SharingSubArray

SpecSubArray == Init /\ [][NextSubArray]_vars

\* =================================================== the Table state machine
\* Inputs: every width and height up to MaxDim, 0, and the largest usize
\* (where width * height wraps); every coordinate up to MaxDim
DimInputs == (0 .. MaxDim) \cup {UsizeMax}
CoordInputs == 0 .. MaxDim

\* let array = Array::create_filled(n, value), of any length up to one cell
\* more than the largest Table needs
InitTable ==
    /\ \E n \in 1 .. MaxDim * MaxDim + 1, value \in Values :
         /\ create_filled(n, value).status = "ok"
         /\ mem = create_filled(n, value).mem
         /\ handles = <<create_filled(n, value).array>>
    /\ table = NoTable
    /\ pre = mem
    /\ last = NoCall
    /\ line = NoLine
    /\ pc = NoThreads /\ idx = NoThreads /\ reg = NoThreads /\ adds = NoThreads

\* Table::new(array, width, height) or Table::new(array.sharing_copy(), ..)
TableNew ==
    /\ table = NoTable /\ last = NoCall
    /\ \E array \in {handles[1], sharing_copy(handles[1])},
       width \in DimInputs, height \in DimInputs :
        LET r == Table_new(array, width, height) IN
        /\ table' = IF r.status = "ok" THEN r.table ELSE NoTable
        /\ mem' = mem /\ pre' = mem
        /\ last' = Call("new", IF array.owner THEN 1 ELSE 2, width, height, 0,
                        [Exec(mem) EXCEPT !.status = r.status])
        /\ UNCHANGED <<handles, line, pc, idx, reg, adds>>

\* A call is made on the Table just constructed.  The calls of this machine store
\* values that do not depend on what the cells hold, so one call after the
\* construction shows the effect a call has after any others.
TableFresh == table # NoTable /\ last.op = "new"

TableReturned(op, a, b, v, r) ==
    /\ mem' = r.mem
    /\ pre' = mem
    /\ last' = Call(op, 0, a, b, v, r)

\* index_for: the index returned is kept in v of the call record
IndexFor ==
    /\ TableFresh
    /\ \E x \in CoordInputs, y \in CoordInputs, env \in Builds(CellMax) :
        LET r == index_for(table, x, y, env) IN
        /\ TableReturned("index_for", x, y,
                         IF r.status = "ok" THEN r.index ELSE 0,
                         [Exec(mem) EXCEPT !.status = r.status])
        /\ UNCHANGED <<handles, table, line, pc, idx, reg, adds>>

TableSet ==
    /\ TableFresh
    /\ \E x \in CoordInputs, y \in CoordInputs, value \in Values :
        /\ TableReturned("set", x, y, value,
                         Table_set(Exec(mem), table, x, y, value, OneEnv(CellMax)))
        /\ UNCHANGED <<handles, table, line, pc, idx, reg, adds>>

\* get: the value returned is kept in v of the call record
TableGet ==
    /\ TableFresh
    /\ \E x \in CoordInputs, y \in CoordInputs :
        LET r == Table_get(Exec(mem), table, x, y, OneEnv(CellMax)) IN
        /\ TableReturned("get", x, y, IF r.status = "ok" THEN r.value ELSE 0,
                         [Exec(mem) EXCEPT !.status = r.status])
        /\ UNCHANGED <<handles, table, line, pc, idx, reg, adds>>

SetRow ==
    /\ TableFresh
    /\ \E y \in CoordInputs, value \in Values :
        /\ TableReturned("set_row", y, 0, value,
                         set_row(Exec(mem), table, y, value, OneEnv(CellMax)))
        /\ UNCHANGED <<handles, table, line, pc, idx, reg, adds>>

SetColumn ==
    /\ TableFresh
    /\ \E x \in CoordInputs, value \in Values, env \in Envs(CellMax) :
        /\ TableReturned("set_column", x, 0, value,
                         set_column(Exec(mem), table, x, value, env))
        /\ UNCHANGED <<handles, table, line, pc, idx, reg, adds>>

TableSetAll ==
    /\ TableFresh
    /\ \E value \in Values :
        /\ TableReturned("set_all", 0, 0, value,
                         Table_set_all(Exec(mem), table, value, OneEnv(CellMax)))
        /\ UNCHANGED <<handles, table, line, pc, idx, reg, adds>>

NextTable ==
    \/ TableNew
    \/ IndexFor \/ TableSet \/ TableGet
    \/ SetRow \/ SetColumn \/ TableSetAll

SpecTable == InitTable /\ [][NextTable]_vars

\* ================================================ the draw_line machine
\* The element type of the Tables drawn on is i32 (test_table_graphics)
I32Max == 2147483647

\* Endpoints: every coordinate up to one past the largest Table, and the two
\* largest usize (where the guard of draw_line overflows)
LineInputs == (0 .. MaxDim + 1) \cup {UsizeMax - 1, UsizeMax}

LineCall(x1, y1, x2, y2, value, r) ==
    [x1 |-> x1, y1 |-> y1, x2 |-> x2, y2 |-> y2, value |-> value,
     issued |-> r.issued, wrapped |-> r.wrapped]

\* let table = Table::new(Array::create_filled(n, 0), width, height), the
\* buffer exactly as long as the Table needs or one cell longer
InitLine ==
    /\ \E width \in 1 .. MaxDim, height \in 1 .. MaxDim, slack \in 0 .. 1 :
         LET a == create_filled(width * height + slack, 0) IN
         /\ a.status = "ok"
         /\ Table_new(a.array, width, height).status = "ok"
         /\ mem = a.mem
         /\ handles = <<a.array>>
         /\ table = Table_new(a.array, width, height).table
    /\ pre = mem
    /\ last = NoCall
    /\ line = NoLine
    /\ pc = NoThreads /\ idx = NoThreads /\ reg = NoThreads /\ adds = NoThreads

\* table.draw_line(x1, y1, x2, y2, 1)
DrawLine ==
    /\ line = NoLine
    /\ \E x1 \in LineInputs, y1 \in LineInputs, x2 \in LineInputs,
       y2 \in LineInputs, env \in Envs(I32Max) :
        LET r == draw_line(Exec(mem), table, x1, y1, x2, y2, 1, env) IN
        /\ line' = LineCall(x1, y1, x2, y2, 1, r)
        /\ mem' = r.mem
        /\ pre' = mem
        /\ last' = Call("draw_line", 0, 0, 0, 1, r)
        /\ UNCHANGED <<handles, table, pc, idx, reg, adds>>

NextLine == DrawLine

SpecLine == InitLine /\ [][NextLine]_vars

\* ================================================== the thread machine
\* test_array_concurrency: the main thread owns the Array and hands a
\* sharing copy to each spawned thread, which runs
\*     for index in from..to { array1.add(index, amount) }
\* add is not atomic: a thread checks the bound and loads the cell in one
\* step and stores the sum in a later one, other threads running between.
\* The element type is i32.
Amount == 10

Threads == 1 .. Len(pc)

\* the sharing copy that thread t was given
ViewOf(t) == handles[t + 1]

RECURSIVE Copies(_, _)
Copies(a, n) == IF n = 0 THEN <<>> ELSE <<sharing_copy(a)>> \o Copies(a, n - 1)

\* pc of a thread that is to run from..to
StartPc(from, to) == IF from < to THEN "load" ELSE "done"

InitThreads(n, size, value, from, to) ==
    /\ create_filled(size, value).status = "ok"
    /\ mem = create_filled(size, value).mem
    /\ handles = <<create_filled(size, value).array>>
                    \o Copies(create_filled(size, value).array, n)
    /\ pre = mem
    /\ last = Call("spawn", 0, 0, 0, Amount, Exec(mem))
    /\ idx = [t \in 1 .. n |->
                [from |-> from[t], index |-> from[t], end |-> to[t]]]
    /\ pc = [t \in 1 .. n |-> StartPc(from[t], to[t])]
    /\ reg = [t \in 1 .. n |-> 0]
    /\ adds = [t \in 1 .. n |-> [i \in 0 .. size - 1 |-> 0]]
    /\ table = NoTable
    /\ line = NoLine

\* lib.rs 85: every thread runs over 0..array1.len()
InitOverlap ==
    \E n \in 1 .. MaxThreads, size \in 1 .. MaxLen, value \in Values :
        InitThreads(n, size, value,
                    [t \in 1 .. n |-> 0],
                    [t \in 1 .. n |->
                        len(sharing_copy(create_filled(size, value).array))])

\* the partitioned use: the threads run over consecutive ranges that split
\* 0..len at the indices cut[1] <= cut[2] <= ..
InitPartition ==
    \E n \in 1 .. MaxThreads, size \in 1 .. MaxLen, value \in Values :
        \E cut \in [0 .. n -> 0 .. size] :
            /\ cut[0] = 0 /\ cut[n] = size
            /\ \A t \in 1 .. n : cut[t - 1] <= cut[t]
            /\ InitThreads(n, size, value,
                           [t \in 1 .. n |-> cut[t - 1]],
                           [t \in 1 .. n |-> cut[t]])

\* add / add_unchecked up to the load of *self.pointer.add(index): both
\* check_bound calls, then the read of the cell
Load(t) ==
    /\ pc[t] = "load"
    /\ IF check_bound(ViewOf(t), idx[t].index)
       THEN /\ pc' = [pc EXCEPT ![t] = "store"]
            /\ \E env \in Envs(I32Max) :
                 reg' = [reg EXCEPT ![t] =
                    RawLoad(Exec(mem), ViewOf(t).pointer + idx[t].index, env)]
            /\ last' = [last EXCEPT !.written =
                          @ \cup {ViewOf(t).pointer + idx[t].index}]
       ELSE /\ pc' = [pc EXCEPT ![t] = "panicked"]
            /\ UNCHANGED <<reg, last>>
    /\ UNCHANGED <<mem, handles, table, pre, line, idx, adds>>

\* the store of the sum, and the step of the for loop to the next index
Store(t) ==
    /\ pc[t] = "store"
    /\ \E env \in Envs(I32Max) :
         LET r == RawStore(Exec(mem), ViewOf(t).pointer + idx[t].index,
                           AddAssign(reg[t], last.v, env), env) IN
         /\ AddAssign(reg[t], last.v, env) # None
         /\ mem' = r.mem
         /\ last' = [last EXCEPT !.written = @ \cup r.written,
                                 !.status = r.status]
    /\ adds' = [adds EXCEPT ![t][idx[t].index] = @ + 1]
    /\ idx' = [idx EXCEPT ![t].index = @ + 1]
    /\ pc' = [pc EXCEPT ![t] = StartPc(idx[t].index + 1, idx[t].end)]
    /\ UNCHANGED <<handles, table, pre, line, reg>>

ThreadStep(t) == Load(t) \/ Store(t)

NextThreads ==
    \/ \E t \in Threads : Load(t)
    \/ \E t \in Threads : Store(t)

SpecPartition == InitPartition /\ [][NextThreads]_vars

SpecOverlap == InitOverlap /\ [][NextThreads]_vars

\* ------------------------------------------------------- claims on Array
LastArray == handles[last.h]
LastSize == LastArray.size
RangedOps == {"set_some", "add_some", "saturating_add_some"}
IndexedOps == {"get", "set", "add", "saturating_add"}

\* C3: after set(index, v) with index < length, get(index) returns v through
\* every handle on the same storage (the owner and each sharing copy), every
\* other index reads the value it held before the set, and no other cell of
\* the storage changed.
C3_SetThenGet ==
    (last.op = "set" /\ last.a < LastSize) =>
        /\ last.status = "ok"
        /\ DOMAIN mem = DOMAIN pre
        /\ \A o \in DOMAIN mem :
              o # LastArray.pointer + last.a => mem[o] = pre[o]
        /\ \A g \in Handles : \A i \in 0 .. handles[g].size - 1 :
              /\ get(Exec(mem), handles[g], i, OneEnv(CellMax)).status = "ok"
              /\ get(Exec(mem), handles[g], i, OneEnv(CellMax)).value =
                    IF handles[g].pointer + i = LastArray.pointer + last.a
                    THEN last.v
                    ELSE pre[handles[g].pointer + i]

\* a set through a sharing copy that changes a cell which is neither the
\* first nor the only one, read back through the owner
C3_Witness ==
    /\ last.op = "set" /\ last.status = "ok"
    /\ last.h > 1 /\ handles[1].owner /\ ~LastArray.owner
    /\ last.a > 0 /\ last.a < LastSize - 1
    /\ pre[last.a] # last.v
    /\ get(Exec(mem), handles[1], last.a, OneEnv(CellMax)).value = last.v

\* C4: set_some(start, count, v) with start + count <= length sets every
\* cell of [start, start + count) to v and leaves the others unchanged; with
\* count = 0 it changes nothing and does not fail, whatever start is.
C4_SetSome ==
    (last.op = "set_some" /\ (last.b = 0 \/ last.a + last.b <= LastSize)) =>
        /\ last.status = "ok"
        /\ DOMAIN mem = DOMAIN pre
        /\ \A o \in DOMAIN mem :
              mem[o] = IF /\ LastArray.pointer + last.a <= o
                          /\ o < LastArray.pointer + last.a + last.b
                       THEN last.v
                       ELSE pre[o]

\* a set_some over an inner range that changes a cell and has cells on
\* both sides
C4_Witness ==
    /\ last.op = "set_some" /\ last.status = "ok"
    /\ last.a > 0 /\ last.b > 0 /\ last.a + last.b < LastSize
    /\ pre[last.a] # last.v /\ mem[last.a] = last.v
    /\ pre[last.a + last.b] # last.v

\* C5: a checked call validates before its first store.  get, set, add and
\* saturating_add with index >= length panic on the bound; set_some,
\* add_some and saturating_add_some with count > 0 panic on the overflow
\* when start + count - 1 wraps usize, and on the bound when it is >= length;
\* in each of these failures nothing was stored and every cell holds the
\* value it held before the call.
C5_ValidateBeforeWrite ==
    /\ (last.op \in IndexedOps /\ last.a >= LastSize) =>
         /\ last.status = "IndexOutOfBounds"
         /\ last.written = {} /\ mem = pre
    /\ (last.op \in RangedOps /\ last.b > 0
          /\ last.a + last.b - 1 > UsizeMax) =>
         /\ last.status = "ArithmeticOverflow"
         /\ last.written = {} /\ mem = pre
    /\ (last.op \in RangedOps /\ last.b > 0
          /\ last.a + last.b - 1 <= UsizeMax
          /\ last.a + last.b - 1 >= LastSize) =>
         /\ last.status = "IndexOutOfBounds"
         /\ last.written = {} /\ mem = pre

\* an add_some that starts inside the Array and ends past it, with an
\* amount that would have changed the cells it starts on
C5_Witness ==
    /\ last.op = "add_some" /\ last.status = "IndexOutOfBounds"
    /\ last.a < LastSize /\ last.a + last.b > LastSize
    /\ last.v > 0 /\ pre[last.a] + last.v <= CellMax
    /\ mem = pre

\* ------------------------------------------------------- claims on Table
\* the offsets, in the allocation, of the cells of row y and of column x
RowOffsets(t, y) == {t.array.pointer + x + y * t.width : x \in 0 .. t.width - 1}
ColumnOffsets(t, x) ==
    {t.array.pointer + x + y * t.width : y \in 0 .. t.height - 1}
GridCells(t) == (0 .. t.width - 1) \X (0 .. t.height - 1)

\* exactly the cells at offsets were set to last.v, by stores to them alone
StoredExactly(offsets) ==
    /\ last.status = "ok"
    /\ last.written = offsets
    /\ DOMAIN mem = DOMAIN pre
    /\ \A o \in DOMAIN mem : mem[o] = IF o \in offsets THEN last.v ELSE pre[o]

FailedUnchanged(status) ==
    last.status = status /\ last.written = {} /\ mem = pre

\* C2: on a Table of any width and height, set_row(y, v) with y < height
\* sets exactly the cells (x, y), x < width, and set_column(x, v) with
\* x < width sets exactly the cells (x, y), y < height; every other cell of
\* the buffer is unchanged and nothing is stored at or past width * height.
\* With y >= height or x >= width the call panics and changes nothing.
C2_RowColumn ==
    /\ (last.op = "set_row" /\ last.a < table.height) =>
            StoredExactly(RowOffsets(table, last.a))
    /\ (last.op = "set_column" /\ last.a < table.width) =>
            StoredExactly(ColumnOffsets(table, last.a))
    /\ (last.op = "set_row" /\ last.a >= table.height) =>
            FailedUnchanged("IndexOutOfBounds")
    /\ (last.op = "set_column" /\ last.a >= table.width) =>
            FailedUnchanged("IndexOutOfBounds")

\* C6: Table::new panics for width = 0 or height = 0, for a width * height
\* that wraps usize, and for a buffer shorter than width * height, in this
\* order; so a constructed Table has width > 0, height > 0, bound = width *
\* height <= buffer length, and every access at an (x, y) inside it goes to
\* an offset inside the buffer.
C6_Create ==
    /\ last.op = "new" =>
         /\ last.status =
              IF last.a = 0 \/ last.b = 0 THEN "InvalidSize"
              ELSE IF last.a * last.b > UsizeMax THEN "ArithmeticOverflow"
              ELSE IF handles[1].size < last.a * last.b THEN "BufferTooSmall"
              ELSE "ok"
         /\ (last.status = "ok") <=> (table # NoTable)
    /\ table # NoTable =>
         /\ table.width > 0 /\ table.height > 0
         /\ table.bound = table.width * table.height
         /\ table.bound <= table.array.size
         /\ \A c \in GridCells(table), env \in Builds(CellMax) :
              /\ index_for(table, c[1], c[2], env).status = "ok"
              /\ index_for(table, c[1], c[2], env).index < table.array.size
    /\ (last.op \in {"set", "get"}
          /\ last.a < table.width /\ last.b < table.height) =>
         /\ last.status = "ok"
         /\ last.written \subseteq DOMAIN mem

\* a set of the last cell of a Table that is not square and fills its
\* buffer exactly
C6_Witness ==
    /\ last.op = "set" /\ last.status = "ok"
    /\ table.width # table.height
    /\ table.bound = table.array.size
    /\ last.a = table.width - 1 /\ last.b = table.height - 1
    /\ last.written = {table.array.size - 1}

\* C7: index_for(x, y) panics when x >= width or y >= height and returns
\* x + y * width otherwise; over the cells of the Table the indices are
\* pairwise distinct and are exactly 0 .. width * height - 1.
C7_IndexFor ==
    /\ last.op = "index_for" =>
         IF last.a >= table.width \/ last.b >= table.height
         THEN last.status = "IndexOutOfBounds"
         ELSE last.status = "ok" /\ last.v = last.a + last.b * table.width
    /\ table # NoTable =>
         \A env \in Builds(CellMax) :
            LET Index(c) == index_for(table, c[1], c[2], env).index IN
            /\ \A c \in GridCells(table), d \in GridCells(table) :
                  c # d => Index(c) # Index(d)
            /\ {Index(c) : c \in GridCells(table)} =
                  0 .. table.width * table.height - 1

\* an index_for off both axes of a Table that is not square
C7_Witness ==
    /\ last.op = "index_for" /\ last.status = "ok"
    /\ table.width # table.height
    /\ last.a > 0 /\ last.b > 0
    /\ last.v = last.a + last.b * table.width

\* C8 as stated: the buffer of a constructed Table has length exactly
\* width * height.
C8_ExactLength ==
    table # NoTable => table.array.size = table.width * table.height

\* C8 as amended: the buffer of a constructed Table has length at least
\* width * height; the cells of the Table are the offsets below width *
\* height, each of them the index of one (x, y), and the buffer cells from
\* width * height on lie outside the Table: set_all leaves them unchanged.
C8_AtLeastLength ==
    /\ table # NoTable =>
         /\ table.array.size >= table.width * table.height
         /\ \A o \in 0 .. table.array.size - 1 :
              (o < table.width * table.height) <=>
              (\E c \in GridCells(table) :
                  index_for(table, c[1], c[2], OneEnv(CellMax)).index = o)
    /\ last.op = "set_all" =>
         StoredExactly({table.array.pointer + o : o \in 0 .. table.bound - 1})

\* a set_all on a Table over a longer buffer, with a value the cell past
\* the Table does not hold
C8_Witness ==
    /\ last.op = "set_all" /\ last.status = "ok"
    /\ table.array.size > table.bound
    /\ pre[table.bound] # last.v
    /\ mem[table.bound] = pre[table.bound]
    /\ mem[table.bound - 1] = last.v

\* --------------------------------------------------- claims on draw_line
InGrid(t, c) == c[1] < t.width /\ c[2] < t.height

\* C1: whenever draw_line gets past its overflow guard, every cell update
\* it issues (each add_unchecked(x, y) and each cell of an
\* add_unchecked_rect) has x < width and y < height, so every offset
\* stored to is x + y * width of a cell of the Table.
C1_Clipped ==
    (line # NoLine /\ last.status # "LineOverflow") =>
        /\ \A i \in DOMAIN line.issued : InGrid(table, line.issued[i])
        /\ last.written \subseteq
              {table.array.pointer + o : o \in 0 .. table.bound - 1}

\* ----------------------------------------------------- claims on threads
AllDone == \A t \in Threads : pc[t] = "done"

RECURSIVE SumTo(_, _)
SumTo(f, n) == IF n = 0 THEN 0 ELSE f[n - 1] + SumTo(f, n - 1)

\* the sum of the cells of m
SumCells(m) == SumTo(m, Cardinality(DOMAIN m))

RECURSIVE RangeSizes(_)
RangeSizes(n) ==
    IF n = 0 THEN 0 ELSE (idx[n].end - idx[n].from) + RangeSizes(n - 1)

\* the threads whose range holds index i
Owners(i) == {t \in Threads : idx[t].from <= i /\ i < idx[t].end}

\* C9: threads that add, each through its sharing copy, to pairwise
\* disjoint ranges of indices: in every interleaving of the loads and
\* stores, once all have finished each cell holds its initial value plus
\* amount for each add its one thread made on it, and the sum of the cells
\* is the initial sum plus amount times the number of adds.
C9_PartitionSum ==
    /\ \A t \in Threads : pc[t] # "panicked"
    /\ AllDone =>
         /\ \A i \in DOMAIN mem :
              /\ Cardinality(Owners(i)) <= 1
              /\ \A t \in Threads :
                    adds[t][i] = IF t \in Owners(i) THEN 1 ELSE 0
              /\ mem[i] = pre[i] + last.v * Cardinality(Owners(i))
         /\ SumCells(mem) = SumCells(pre) + last.v * RangeSizes(Len(pc))

\* the threads, more than one and each with cells to add to, have all
\* finished
C9_Witness ==
    /\ AllDone
    /\ Len(pc) > 1
    /\ \A t \in Threads : idx[t].from < idx[t].end
    /\ SumCells(mem) > SumCells(pre)

\* C10: threads that each add once to every index 0..len through their
\* sharing copies: in every interleaving no add fails its bound check, no
\* offset outside the storage is loaded or stored, the lengths of the owner
\* and of the copies stay what they were, and every thread that has not
\* finished can take its next step and finishes having added to every
\* index; nothing is said of the values.
C10_OverlapSafe ==
    /\ \A t \in Threads : pc[t] # "panicked"
    /\ last.status = "ok"
    /\ last.written \subseteq DOMAIN pre
    /\ DOMAIN mem = DOMAIN pre
    /\ \A h \in Handles : handles[h].size = Cardinality(DOMAIN pre)
    /\ \A t \in Threads :
         /\ pc[t] # "done" => ENABLED ThreadStep(t)
         /\ pc[t] = "done" =>
              /\ idx[t].index = ViewOf(t).size
              /\ \A i \in DOMAIN mem : adds[t][i] = 1

\* all of several threads have finished and a cell lost an add
C10_Witness ==
    /\ AllDone
    /\ Len(pc) > 1
    /\ \E i \in DOMAIN mem : mem[i] < pre[i] + last.v * Len(pc)
    /\ \A i \in DOMAIN mem : mem[i] > pre[i]

\* ----------------------------------------------- claims on sub-array views
\* the handle a successful sharing_sub_array returned
LastView == handles[Len(handles)]

\* C11: sharing_sub_array(start, size) panics on the size when size = 0, on
\* the overflow when start + size - 1 wraps usize, and on the bound unless
\* start + size <= the length of the source; a failed call makes no view and
\* changes no cell.  When it succeeds the view has length size, owns no
\* storage, and its cell i is the cell start + i of the source: both read
\* the same value.  Every handle stays inside the storage of the owner, so
\* every checked access through a view reads or writes a cell of the source,
\* and a value set through one handle is read back through every handle
\* whose cell is the same storage.
C11_SubArray ==
    /\ last.op = "sharing_sub_array" =>
         /\ mem = pre /\ last.written = {}
         /\ last.b = 0 => last.status = "InvalidSize"
         /\ (last.b > 0 /\ last.a + last.b - 1 > UsizeMax) =>
                last.status = "ArithmeticOverflow"
         /\ (last.b > 0 /\ last.a + last.b - 1 <= UsizeMax
               /\ last.a + last.b > LastSize) =>
                last.status = "IndexOutOfBounds"
         /\ (last.b > 0 /\ last.a + last.b <= LastSize) =>
                /\ last.status = "ok"
                /\ Len(handles) > last.h
                /\ len(LastView) = last.b
                /\ ~LastView.owner
                /\ \A i \in 0 .. last.b - 1 :
                      /\ LastView.pointer + i = LastArray.pointer + last.a + i
                      /\ get(Exec(mem), LastView, i, OneEnv(CellMax)) =
                         get(Exec(mem), LastArray, last.a + i, OneEnv(CellMax))
    /\ \A g \in Handles :
         /\ handles[g].size > 0
         /\ \A i \in 0 .. handles[g].size - 1 :
               /\ handles[g].pointer + i \in DOMAIN mem
               /\ handles[g].pointer + i < handles[1].size
               /\ get(Exec(mem), handles[g], i, OneEnv(CellMax)) =
                  get(Exec(mem), handles[1], handles[g].pointer + i,
                      OneEnv(CellMax))
    /\ (last.op = "set" /\ last.status = "ok") =>
         \A g \in Handles : \A i \in 0 .. handles[g].size - 1 :
            get(Exec(mem), handles[g], i, OneEnv(CellMax)).value =
               IF handles[g].pointer + i = LastArray.pointer + last.a
               THEN last.v
               ELSE pre[handles[g].pointer + i]

\* a value set through a view that starts inside the source and is shorter
\* than it, read back through the source at start + index
C11_Witness ==
    /\ last.op = "set" /\ last.status = "ok"
    /\ last.h > 1 /\ ~LastArray.owner
    /\ LastArray.pointer > 0 /\ LastSize < handles[1].size
    /\ pre[LastArray.pointer + last.a] # last.v
    /\ get(Exec(mem), handles[1], LastArray.pointer + last.a,
           OneEnv(CellMax)).value = last.v

\* ------------------------------------- claims on the paths of draw_line
\* the offset of the cell (x, y) in the storage of the Table drawn on
OffsetOf(x, y) == table.array.pointer + x + y * table.width

\* the call added amount once to each of the offsets and changed no other
AddedOnceTo(offsets) ==
    /\ last.status = "ok"
    /\ last.written = offsets
    /\ DOMAIN mem = DOMAIN pre
    /\ \A o \in DOMAIN mem :
          mem[o] = IF o \in offsets THEN pre[o] + line.value ELSE pre[o]

\* C12: the axis-aligned paths.  With x1 = x2 < width and one of y1, y2
\* below height, draw_line adds amount exactly once to each cell (x1, y)
\* with min(y1, y2) <= y <= min(max(y1, y2), height - 1) and changes no
\* other cell; with y1 = y2 < height and one of x1, x2 below width, the same
\* for the cells (x, y1) with min(x1, x2) <= x <= min(max(x1, x2), width - 1);
\* with the fixed coordinate out of range no cell changes.  The single point
\* x1 = x2, y1 = y2 is both cases.
C12_AxisAligned ==
    line # NoLine =>
      LET L == LineOf(table.width, table.height,
                      line.x1, line.y1, line.x2, line.y2) IN
      /\ (line.x1 = line.x2 /\ line.x1 < table.width
            /\ (line.y1 < table.height \/ line.y2 < table.height)) =>
           AddedOnceTo({OffsetOf(line.x1, y) :
                          y \in L.min_y .. Min(L.max_y, table.height - 1)})
      /\ (line.y1 = line.y2 /\ line.y1 < table.height
            /\ (line.x1 < table.width \/ line.x2 < table.width)) =>
           AddedOnceTo({OffsetOf(x, line.y1) :
                          x \in L.min_x .. Min(L.max_x, table.width - 1)})
      /\ ((line.x1 = line.x2 /\ line.x1 >= table.width)
            \/ (line.y1 = line.y2 /\ line.y1 >= table.height)) =>
           AddedOnceTo({})

\* a vertical line in an inner column that starts below the first row and
\* ends outside the Table: it is clipped at the last row
C12_Witness ==
    /\ line # NoLine /\ last.status = "ok"
    /\ line.x1 = line.x2 /\ line.x1 > 0 /\ line.x1 < table.width - 1
    /\ line.y2 > 0 /\ line.y2 < table.height - 1
    /\ line.y1 >= table.height
    /\ last.written = {OffsetOf(line.x1, y) :
                         y \in line.y2 .. table.height - 1}
    /\ mem[OffsetOf(line.x1, table.height - 1)] = line.value
    /\ mem[OffsetOf(line.x1, 0)] = 0

\* the cells draw_line asked the Table to add to
Touched == {line.issued[i] : i \in DOMAIN line.issued}

\* two cells that share a side or a corner
Adjacent(c, d) ==
    /\ c # d
    /\ c[1] - d[1] \in -1 .. 1
    /\ c[2] - d[2] \in -1 .. 1

\* the cells of the set cells that a walk from a cell of seen reaches by
\* steps between adjacent cells
RECURSIVE Reach(_, _)
Reach(seen, cells) ==
    LET more == {c \in cells \ seen : \E d \in seen : Adjacent(c, d)} IN
    IF more = {} THEN seen ELSE Reach(seen \cup more, cells)

\* the segment is neither vertical nor horizontal and both its endpoints
\* are cells of the Table
DiagonalInside ==
    /\ line # NoLine
    /\ line.x1 # line.x2 /\ line.y1 # line.y2
    /\ line.x1 < table.width /\ line.x2 < table.width
    /\ line.y1 < table.height /\ line.y2 < table.height

\* C13: for a segment that is not axis-aligned and has both endpoints in
\* the Table, whichever of dx, dy is larger and whichever way it slopes,
\* draw_line returns and the cells it touched are cells of the Table that
\* include both endpoints, at least one cell of every column of
\* [min_x, max_x] and of every row of [min_y, max_y], and are 8-connected:
\* every touched cell is reached from the first endpoint by steps between
\* adjacent touched cells.
C13_NoGaps ==
    DiagonalInside =>
      LET L == LineOf(table.width, table.height,
                      line.x1, line.y1, line.x2, line.y2) IN
      /\ last.status = "ok"
      /\ \A c \in Touched : InGrid(table, c)
      /\ last.written = {OffsetOf(c[1], c[2]) : c \in Touched}
      /\ \A o \in last.written : mem[o] # pre[o]
      /\ <<line.x1, line.y1>> \in Touched
      /\ <<line.x2, line.y2>> \in Touched
      /\ \A x \in L.min_x .. L.max_x : \E c \in Touched : c[1] = x
      /\ \A y \in L.min_y .. L.max_y : \E c \in Touched : c[2] = y
      /\ Reach({<<line.x1, line.y1>>}, Touched) = Touched

\* a segment of negative slope, steeper than 45 degrees, from the bottom
\* right to the top left, drawn in full
C13_Witness ==
    /\ DiagonalInside /\ last.status = "ok"
    /\ line.x1 > line.x2 /\ line.y1 < line.y2
    /\ line.y2 - line.y1 > line.x1 - line.x2
    /\ Cardinality(Touched) = line.y2 - line.y1 + 1
    /\ mem[OffsetOf(line.x1, line.y1)] > 0
    /\ mem[OffsetOf(line.x2, line.y2)] > 0

\* the segment reaches the general case of draw_line: it is not rejected
\* as outside the Table and is neither vertical nor horizontal
GeneralCase ==
    /\ line # NoLine
    /\ ~(line.x1 >= table.width /\ line.x2 >= table.width)
    /\ ~(line.y1 >= table.height /\ line.y2 >= table.height)
    /\ line.x1 # line.x2 /\ line.y1 # line.y2

\* the row-major offset of an issued cell does not fit usize: the
\* x + y * width of the Table the cell was handed to, not of draw_line
IndexWraps(c) == c[1] + c[2] * table.width > UsizeMax

\* C14: in the general case, when end_x * dy + min_y or end_y * dx + min_x
\* does not fit usize the call panics before it issues an update or stores
\* to a cell.  When both fit, the clipping width - 1 - min_x and
\* height - 1 - min_y and the arithmetic of the two passes (extra_x * dy,
\* extra_y * dx, extra + min, max - extra) neither wrap nor go below zero:
\* the only usize operation of the call that can is the offset
\* x + y * width the Table computes for the update issued last.
C14_OverflowGuard ==
    GeneralCase =>
      LET L == LineOf(table.width, table.height,
                      line.x1, line.y1, line.x2, line.y2) IN
      /\ L.max_x >= table.width => table.width - 1 - L.min_x >= 0
      /\ L.max_y >= table.height => table.height - 1 - L.min_y >= 0
      /\ L.dx > 0 /\ L.dy > 0
      /\ (\/ L.end_x * L.dy + L.min_y > UsizeMax
          \/ L.end_y * L.dx + L.min_x > UsizeMax) =>
            /\ last.status = "LineOverflow"
            /\ line.issued = <<>> /\ last.written = {} /\ mem = pre
            /\ ~line.wrapped
      /\ (/\ L.end_x * L.dy + L.min_y <= UsizeMax
          /\ L.end_y * L.dx + L.min_x <= UsizeMax) =>
            /\ last.status # "LineOverflow"
            /\ (last.status = "ArithmeticOverflow" \/ line.wrapped) =>
                  /\ line.issued # <<>>
                  /\ \E i \in DOMAIN line.issued : IndexWraps(line.issued[i])
            /\ last.status = "ArithmeticOverflow" =>
                  IndexWraps(line.issued[Len(line.issued)])

\* a segment into the Table from far outside it, refused by the guard
\* because end_x * dy does not fit although every coordinate does
C14_Witness ==
    /\ GeneralCase /\ last.status = "LineOverflow"
    /\ mem = pre /\ line.issued = <<>>
    /\ line.x1 < table.width /\ line.x2 < table.width
    /\ line.y1 < table.height /\ line.y2 >= table.height
    /\ LineOf(table.width, table.height,
              line.x1, line.y1, line.x2, line.y2).end_x > 1

\* C15: a draw_line call that returns adds amount exactly once to each cell
\* it touches: every cell holds the value it held before the call or that
\* value plus amount, also a cell sampled by both the x pass and the y pass.
C15_ExactlyOnce ==
    (line # NoLine /\ last.status = "ok" /\ ~line.wrapped) =>
        /\ DOMAIN mem = DOMAIN pre
        /\ \A o \in DOMAIN mem :
              mem[o] = pre[o] \/ mem[o] = pre[o] + line.value

====
